---- MODULE Spec2Model ----
(***************************************************************************)
(* Gujarati News Finder (streamlit_app.py): the script that Streamlit      *)
(* re-runs top to bottom on every user interaction.  The model covers the  *)
(* two persisted JSON maps (result cache, file index), the drive sync, the *)
(* cache-aware page loop process_pdf and the result display of main.       *)
(*                                                                         *)
(* Text is a sequence of one-character strings, a dict is a function, a    *)
(* JSON file is a record [exists, data], a filesystem path is a sequence   *)
(* of components.                                                          *)
(***************************************************************************)
EXTENDS Integers, Sequences, FiniteSets, TLC

VARIABLES
    remote,           \* Drive folder: title -> 0 not there, 1 as uploaded, 2 replaced
    local,            \* temp_dir: title -> 0 no file, else the version downloaded
    filesIndex,       \* FILES_INDEX on disk
    cacheFile,        \* CACHE_FILE on disk
    drive_files,      \* st.session_state.drive_files, per session
    processed_cache,  \* st.session_state.processed_cache, per session
    pc,               \* where each session's script run stands
    call,             \* the locals of the running process_pdf call, per session
    results,          \* what process_pdf returned to main, per session
    display,          \* what the page shows, per session
    ran,              \* history: main has run in this session
    listed,           \* history: executions of the folder listing in this session
    synced,           \* history: "no", or since the last change of the folder a sync call
                      \* has returned: "yes", "kept" if a listing found a PDF on disk
    log,              \* history: inference calls of the current process_pdf call
    snap,             \* history: both cache maps when process_pdf was called
    outcome,          \* history: how the current process_pdf call ended
    origin,           \* history: cache key -> the (file, tag) whose run wrote it
    firstVal          \* history: (file, tag) -> value of its first cache write

vars == <<remote, local, filesIndex, cacheFile, drive_files, processed_cache, pc,
          call, results, display, ran, listed, synced, log, snap, outcome, origin,
          firstVal>>

---------------------------------------------------------------------------
(* Bounds of the model *)

MaxPages == 2      \* pages of the longest document
MaxLen == 5        \* length of the blobs given to the display alone

---------------------------------------------------------------------------
(* Text *)

None == <<"<None>">>          \* Python's None, distinct from every text
EmptyDict == [k \in {} |-> <<>>]
NL == "\n"
Sep == <<"-", "-", "-">>      \* the literal '---' of results.split('---')
Whitespace == {" ", NL}

Truthy(x) == x # None /\ x # <<>>

Put(d, k, v) == [x \in DOMAIN d \cup {k} |-> IF x = k THEN v ELSE d[x]]

\* a dict rebuilt around the one new key
SetItemFresh(d, k, v) == [x \in {k} |-> v]

\* d[k] = v on a Python dict
SetItem(d, k, v) == [x \in DOMAIN d \cup {k} |-> IF x = k THEN v ELSE d[x]]

RECURSIVE JoinNL(_)
JoinNL(list) ==
    IF list = <<>> THEN <<>>
    ELSE IF Len(list) = 1 THEN list[1]
    ELSE list[1] \o <<NL>> \o JoinNL(Tail(list))

IsSepAt(s, j) == j + Len(Sep) - 1 <= Len(s) /\ SubSeq(s, j, j + Len(Sep) - 1) = Sep

\* str.find: the first index at or after i where the separator starts, 0 if none
FindSep(s, i) ==
    LET hits == {j \in i..Len(s) : IsSepAt(s, j)}
    IN IF hits = {} THEN 0 ELSE CHOOSE j \in hits : \A h \in hits : j <= h

\* results.split('---')
RECURSIVE Split(_)
Split(s) ==
    LET j == FindSep(s, 1)
    IN IF j = 0 THEN <<s>>
       ELSE <<SubSeq(s, 1, j - 1)>> \o Split(SubSeq(s, j + Len(Sep), Len(s)))

\* section.strip()
RECURSIVE LStrip(_)
LStrip(s) == IF s # <<>> /\ s[1] \in Whitespace THEN LStrip(Tail(s)) ELSE s

RECURSIVE RStrip(_)
RStrip(s) ==
    IF s # <<>> /\ s[Len(s)] \in Whitespace THEN RStrip(SubSeq(s, 1, Len(s) - 1)) ELSE s

Strip(s) == RStrip(LStrip(s))

\* the loop without the "if section.strip()"
RECURSIVE ItemsUnfiltered(_, _)
ItemsUnfiltered(sections, idx) ==
    IF sections = <<>> THEN <<>>
    ELSE << [item |-> idx, text |-> Strip(sections[1])] >>
         \o ItemsUnfiltered(Tail(sections), idx + 1)

\* the loop over enumerate(sections, 1): one News Item block per non-blank section
RECURSIVE Items(_, _)
Items(sections, idx) ==
    IF sections = <<>> THEN <<>>
    ELSE (IF Strip(sections[1]) # <<>>
          THEN << [item |-> idx, text |-> Strip(sections[1])] >>
          ELSE <<>>)
         \o Items(Tail(sections), idx + 1)

\* main, from "if results:" to the "No relevant news found" branch
Render(res) ==
    IF Truthy(res)
    THEN [kind |-> "results", items |-> Items(Split(res), 1)]
    ELSE [kind |-> "no_news", items |-> <<>>]

---------------------------------------------------------------------------
(* Files, tags, paths, keys *)

FileA == <<"a">>
FileAB == <<"a", "_", "b">>
Titles == {FileA, FileAB}
TagC == <<"c">>
TagBC == <<"b", "_", "c">>
Tags == {TagC, TagBC}
Sessions == {1, 2}

TempDir == <<"tmp", "gujarati_news_finder", "pdfs">>
LocalPath(title) == Append(TempDir, title)      \* temp_dir / file['title']
PathName(path) == path[Len(path)]               \* Path(pdf_path).name

cache_key(path, tag) == PathName(path) \o <<"_">> \o tag

\* len(doc): the one-page and the longest document
PagesOf(title) == IF title = FileA THEN 1 ELSE MaxPages

\* process_image_with_gpt4_vision is called by process_pdf and defined nowhere in the
\* file: per page it gives findings that end in the separator, an empty text, or None
Letters == <<"x", "y", "z", "w">>
PageText(i) == <<Letters[i]>> \o Sep
InferenceResults(i) == {None, <<>>, PageText(i)}

\* a load that ignores the file
load_cache_nothing(file) == EmptyDict

load_cache(file) == IF file.exists THEN file.data ELSE EmptyDict

\* a save that would keep the keys the file has and the map lacks
save_cache_merge(file, mem) ==
    [exists |-> TRUE,
     data |-> [k \in DOMAIN mem \cup DOMAIN load_cache(file) |->
                 IF k \in DOMAIN mem THEN mem[k] ELSE file.data[k]]]

save_cache(file, mem) == [exists |-> TRUE, data |-> mem]

load_files_index(file) == IF file.exists THEN file.data ELSE EmptyDict

save_files_index(mem) == [exists |-> TRUE, data |-> mem]

NoFile == [exists |-> FALSE, data |-> EmptyDict]
NoCall == [file |-> <<>>, tag |-> <<>>, key |-> <<>>, total |-> 0, i |-> 0,
           all_results |-> <<>>]
NoSnap == [mem |-> EmptyDict, file |-> NoFile]
Blank == [kind |-> "none", items |-> <<>>]

---------------------------------------------------------------------------
(* Drive sync *)

RemoteTitles(rem) == {t \in Titles : rem[t] # 0}

\* a download with no look at the local path
GetContentAlways(loc, rem, t) == rem[t]

\* "if not local_path.exists(): file.GetContentFile(str(local_path))"
GetContentIfMissing(loc, rem, t) == IF loc[t] = 0 THEN rem[t] ELSE loc[t]

\* sync_drive_files when no Drive call raises; df is session_state.drive_files
sync_drive_files(df, idx, rem, loc) ==
    IF DOMAIN df # {}
    THEN [drive_files |-> df, local |-> loc, index |-> idx, listed |-> FALSE,
          kept |-> {}]
    ELSE LET titles == RemoteTitles(rem)
             ndf == [t \in titles |-> LocalPath(t)]
         IN [drive_files |-> ndf,
             local |-> [t \in Titles |->
                          IF t \in titles THEN GetContentIfMissing(loc, rem, t)
                          ELSE loc[t]],
             index |-> save_files_index(ndf),
             listed |-> TRUE,
             kept |-> {t \in titles : loc[t] # 0}]

\* sync_drive_files when a download raises after the files of `seen` were handled:
\* the exception leaves main, save_files_index is not reached
sync_drive_files_raises(idx, rem, loc, seen) ==
    [drive_files |-> [t \in seen |-> LocalPath(t)],
     local |-> [t \in Titles |->
                  IF t \in seen THEN GetContentIfMissing(loc, rem, t) ELSE loc[t]],
     index |-> idx,
     listed |-> TRUE,
     kept |-> {t \in seen : loc[t] # 0}]

---------------------------------------------------------------------------
(* process_pdf *)

\* a lookup that would take an empty cached value for no value
IsCachedTruthy(cache, key) == key \in DOMAIN cache /\ Truthy(cache[key])

\* "if cache_key in st.session_state.processed_cache"
IsCached(cache, key) == key \in DOMAIN cache

\* an append without the "if result"
AppendAlways(all_results, result) == Append(all_results, result)

\* "if result: all_results.append(result)"
AppendIfTruthy(all_results, result) ==
    IF Truthy(result) THEN Append(all_results, result) ELSE all_results

---------------------------------------------------------------------------
Init ==
    /\ remote = [t \in Titles |-> 0]
    /\ local = [t \in Titles |-> 0]
    /\ filesIndex = NoFile
    /\ cacheFile = NoFile
    /\ drive_files = [s \in Sessions |-> EmptyDict]
    /\ processed_cache = [s \in Sessions |-> EmptyDict]
    /\ pc = [s \in Sessions |-> "idle"]
    /\ call = [s \in Sessions |-> NoCall]
    /\ results = [s \in Sessions |-> None]
    /\ display = [s \in Sessions |-> Blank]
    /\ ran = [s \in Sessions |-> FALSE]
    /\ listed = [s \in Sessions |-> 0]
    /\ synced = "no"
    /\ log = [s \in Sessions |-> <<>>]
    /\ snap = [s \in Sessions |-> NoSnap]
    /\ outcome = [s \in Sessions |-> "none"]
    /\ origin = EmptyDict
    /\ firstVal = EmptyDict

\* main up to and including sync_drive_files(), with sync result sy
Startup(s, sy, ok) ==
    /\ pc[s] = "idle"
    /\ processed_cache' = [processed_cache EXCEPT ![s] = load_cache(cacheFile)]
    /\ drive_files' = [drive_files EXCEPT ![s] = sy.drive_files]
    /\ local' = sy.local
    /\ filesIndex' = sy.index
    /\ ran' = [ran EXCEPT ![s] = TRUE]
    /\ listed' = [listed EXCEPT ![s] = IF sy.listed /\ @ < 2 THEN @ + 1 ELSE @]
    /\ synced' = IF ~ok THEN "no"
                 ELSE IF sy.listed /\ sy.kept # {} THEN "kept"
                 ELSE IF sy.listed \/ synced = "no" THEN "yes"
                 ELSE synced
    /\ log' = [log EXCEPT ![s] = <<>>]
    /\ snap' = [snap EXCEPT ![s] = [mem |-> load_cache(cacheFile), file |-> cacheFile]]
    /\ UNCHANGED <<remote, cacheFile, origin, firstVal>>

Synced == sync_drive_files(load_files_index(filesIndex), filesIndex, remote, local)

\* a run of main in which a Drive download raises: the script run ends there
RunSyncRaises(s) ==
    /\ DOMAIN load_files_index(filesIndex) = {}
    /\ \E seen \in SUBSET RemoteTitles(remote) :
         /\ \E t \in RemoteTitles(remote) \ seen : local[t] = 0
         /\ Startup(s, sync_drive_files_raises(filesIndex, remote, local, seen), FALSE)
    /\ call' = [call EXCEPT ![s] = NoCall]
    /\ results' = [results EXCEPT ![s] = None]
    /\ outcome' = [outcome EXCEPT ![s] = "none"]
    /\ display' = [display EXCEPT ![s] = [kind |-> "exception", items |-> <<>>]]
    /\ UNCHANGED pc

\* a run of main without the button
RunView(s) ==
    /\ Startup(s, Synced, TRUE)
    /\ call' = [call EXCEPT ![s] = NoCall]
    /\ results' = [results EXCEPT ![s] = None]
    /\ outcome' = [outcome EXCEPT ![s] = "none"]
    /\ display' = [display EXCEPT ![s] = [kind |-> "page", items |-> <<>>]]
    /\ UNCHANGED pc

\* button pressed, the selectbox has no option: "Please select a file!"
RunNoFile(s) ==
    /\ Startup(s, Synced, TRUE)
    /\ DOMAIN Synced.drive_files = {}
    /\ call' = [call EXCEPT ![s] = NoCall]
    /\ results' = [results EXCEPT ![s] = None]
    /\ outcome' = [outcome EXCEPT ![s] = "none"]
    /\ display' = [display EXCEPT ![s] = [kind |-> "select_error", items |-> <<>>]]
    /\ UNCHANGED pc

\* button pressed, empty tag: "Please enter a search tag!"
RunNoTag(s) ==
    /\ Startup(s, Synced, TRUE)
    /\ DOMAIN Synced.drive_files # {}
    /\ call' = [call EXCEPT ![s] = NoCall]
    /\ results' = [results EXCEPT ![s] = None]
    /\ outcome' = [outcome EXCEPT ![s] = "none"]
    /\ display' = [display EXCEPT ![s] = [kind |-> "tag_error", items |-> <<>>]]
    /\ UNCHANGED pc

NewCall(f, tag, key, total) ==
    [file |-> f, tag |-> tag, key |-> key, total |-> total, i |-> 0,
     all_results |-> <<>>]

\* button pressed, process_pdf returns the cached value
RunHit(s) ==
    /\ Startup(s, Synced, TRUE)
    /\ \E f \in DOMAIN Synced.drive_files, tag \in Tags :
         LET key == cache_key(Synced.drive_files[f], tag)
             cache == load_cache(cacheFile)
         IN /\ IsCached(cache, key)
            /\ call' = [call EXCEPT ![s] = NewCall(f, tag, key, 0)]
            /\ results' = [results EXCEPT ![s] = cache[key]]
    /\ outcome' = [outcome EXCEPT ![s] = "hit"]
    /\ pc' = [pc EXCEPT ![s] = "present"]
    /\ UNCHANGED display

\* button pressed, cache miss, fitz.open raises: except branch, returns None
RunOpenRaises(s) ==
    /\ Startup(s, Synced, TRUE)
    /\ \E f \in DOMAIN Synced.drive_files, tag \in Tags :
         LET key == cache_key(Synced.drive_files[f], tag)
         IN /\ ~IsCached(load_cache(cacheFile), key)
            /\ call' = [call EXCEPT ![s] = NewCall(f, tag, key, 0)]
    /\ results' = [results EXCEPT ![s] = None]
    /\ outcome' = [outcome EXCEPT ![s] = "error"]
    /\ pc' = [pc EXCEPT ![s] = "present"]
    /\ UNCHANGED display

\* button pressed, cache miss, the document opens: the page loop starts
RunMiss(s) ==
    /\ Startup(s, Synced, TRUE)
    /\ \E f \in DOMAIN Synced.drive_files, tag \in Tags :
         LET key == cache_key(Synced.drive_files[f], tag)
         IN /\ ~IsCached(load_cache(cacheFile), key)
            /\ call' = [call EXCEPT ![s] = NewCall(f, tag, key, PagesOf(f))]
    /\ results' = [results EXCEPT ![s] = None]
    /\ outcome' = [outcome EXCEPT ![s] = "running"]
    /\ pc' = [pc EXCEPT ![s] = "processing"]
    /\ UNCHANGED display

\* one pass of "for i, page in enumerate(doc)" that raises nothing
ProcessPage(s) ==
    /\ pc[s] = "processing"
    /\ call[s].i < call[s].total
    /\ \E result \in InferenceResults(call[s].i + 1) :
         /\ call' = [call EXCEPT ![s].i = @ + 1,
                                 ![s].all_results = AppendIfTruthy(@, result)]
         /\ log' = [log EXCEPT ![s] = Append(@, [page |-> call[s].i + 1, result |-> result])]
    /\ UNCHANGED <<remote, local, filesIndex, cacheFile, drive_files, processed_cache,
                   pc, results, display, ran, listed, synced, snap, outcome, origin,
                   firstVal>>

\* an except branch that would store the pages read so far
PageRaisesCaching(s) ==
    /\ pc[s] = "processing"
    /\ call[s].i < call[s].total
    /\ processed_cache' = [processed_cache EXCEPT
                             ![s] = SetItem(@, call[s].key, JoinNL(call[s].all_results))]
    /\ cacheFile' = save_cache(cacheFile, processed_cache'[s])
    /\ results' = [results EXCEPT ![s] = None]
    /\ outcome' = [outcome EXCEPT ![s] = "error"]
    /\ pc' = [pc EXCEPT ![s] = "present"]
    /\ UNCHANGED <<remote, local, filesIndex, drive_files, call, display, ran, listed,
                   synced, log, snap, origin, firstVal>>

\* rendering or inference of the next page raises: "except Exception", return None
PageRaises(s) ==
    /\ pc[s] = "processing"
    /\ call[s].i < call[s].total
    /\ results' = [results EXCEPT ![s] = None]
    /\ outcome' = [outcome EXCEPT ![s] = "error"]
    /\ pc' = [pc EXCEPT ![s] = "present"]
    /\ UNCHANGED <<remote, local, filesIndex, cacheFile, drive_files, processed_cache,
                   call, display, ran, listed, synced, log, snap, origin, firstVal>>

\* after the loop: join, store under the key, save_cache(), return final_result
CacheWrite(s) ==
    /\ pc[s] = "processing"
    /\ call[s].i = call[s].total
    /\ LET final_result == JoinNL(call[s].all_results)
           pair == <<call[s].file, call[s].tag>>
       IN /\ processed_cache' = [processed_cache EXCEPT
                                   ![s] = SetItem(@, call[s].key, final_result)]
          /\ cacheFile' = save_cache(cacheFile, processed_cache'[s])
          /\ results' = [results EXCEPT ![s] = final_result]
          /\ origin' = Put(origin, call[s].key, pair)
          /\ firstVal' = IF pair \in DOMAIN firstVal THEN firstVal
                         ELSE Put(firstVal, pair, final_result)
    /\ outcome' = [outcome EXCEPT ![s] = "done"]
    /\ pc' = [pc EXCEPT ![s] = "present"]
    /\ UNCHANGED <<remote, local, filesIndex, drive_files, call, display, ran, listed,
                   synced, log, snap>>

\* main shows what process_pdf returned
Present(s) ==
    /\ pc[s] = "present"
    /\ display' = [display EXCEPT ![s] = Render(results[s])]
    /\ pc' = [pc EXCEPT ![s] = "idle"]
    /\ call' = [call EXCEPT ![s] = NoCall]
    /\ log' = [log EXCEPT ![s] = <<>>]
    /\ snap' = [snap EXCEPT ![s] = NoSnap]
    /\ UNCHANGED <<remote, local, filesIndex, cacheFile, drive_files, processed_cache,
                   results, ran, listed, synced, outcome, origin, firstVal>>

\* a new session (application restart): session_state starts over, the files stay
Restart(s) ==
    /\ pc[s] = "idle"
    /\ ran[s]
    /\ drive_files' = [drive_files EXCEPT ![s] = EmptyDict]
    /\ processed_cache' = [processed_cache EXCEPT ![s] = EmptyDict]
    /\ call' = [call EXCEPT ![s] = NoCall]
    /\ results' = [results EXCEPT ![s] = None]
    /\ display' = [display EXCEPT ![s] = Blank]
    /\ ran' = [ran EXCEPT ![s] = FALSE]
    /\ listed' = [listed EXCEPT ![s] = 0]
    /\ log' = [log EXCEPT ![s] = <<>>]
    /\ snap' = [snap EXCEPT ![s] = NoSnap]
    /\ outcome' = [outcome EXCEPT ![s] = "none"]
    /\ UNCHANGED <<remote, local, filesIndex, cacheFile, pc, synced, origin, firstVal>>

\* the user uploads a PDF to the Drive folder
RemoteAdd(t) ==
    /\ remote[t] = 0
    /\ remote' = [remote EXCEPT ![t] = 1]
    /\ synced' = "no"
    /\ UNCHANGED <<local, filesIndex, cacheFile, drive_files, processed_cache, pc, call,
                   results, display, ran, listed, log, snap, outcome, origin, firstVal>>

\* the user replaces a PDF of the Drive folder by a new version.  Replacing a PDF
\* that has no local copy yet is no different from uploading it, so only the
\* replacement of a downloaded PDF is a step of its own.
RemoteModify(t) ==
    /\ remote[t] = 1
    /\ local[t] = 1
    /\ remote' = [remote EXCEPT ![t] = 2]
    /\ synced' = "no"
    /\ UNCHANGED <<local, filesIndex, cacheFile, drive_files, processed_cache, pc, call,
                   results, display, ran, listed, log, snap, outcome, origin, firstVal>>

Step(s) ==
    \/ RunSyncRaises(s)
    \/ RunView(s)
    \/ RunNoFile(s)
    \/ RunNoTag(s)
    \/ RunHit(s)
    \/ RunOpenRaises(s)
    \/ RunMiss(s)
    \/ ProcessPage(s)
    \/ PageRaises(s)
    \/ CacheWrite(s)
    \/ Present(s)
    \/ Restart(s)

Env == \E t \in Titles : RemoteAdd(t) \/ RemoteModify(t)

\* one browser session
Next == Step(1) \/ Env

Spec == Init /\ [][Next]_vars

\* two browser sessions of the same server process that search the one PDF of the
\* Drive folder, which a first run of main has synced
InitTwo ==
    /\ remote = [t \in Titles |-> IF t = FileA THEN 1 ELSE 0]
    /\ local = [t \in Titles |-> IF t = FileA THEN 1 ELSE 0]
    /\ filesIndex = save_files_index([t \in {FileA} |-> LocalPath(t)])
    /\ cacheFile = NoFile
    /\ drive_files = [s \in Sessions |-> EmptyDict]
    /\ processed_cache = [s \in Sessions |-> EmptyDict]
    /\ pc = [s \in Sessions |-> "idle"]
    /\ call = [s \in Sessions |-> NoCall]
    /\ results = [s \in Sessions |-> None]
    /\ display = [s \in Sessions |-> Blank]
    /\ ran = [s \in Sessions |-> FALSE]
    /\ listed = [s \in Sessions |-> 0]
    /\ synced = "yes"
    /\ log = [s \in Sessions |-> <<>>]
    /\ snap = [s \in Sessions |-> NoSnap]
    /\ outcome = [s \in Sessions |-> "none"]
    /\ origin = EmptyDict
    /\ firstVal = EmptyDict

Search(s) ==
    \/ RunHit(s)
    \/ RunOpenRaises(s)
    \/ RunMiss(s)
    \/ ProcessPage(s)
    \/ PageRaises(s)
    \/ CacheWrite(s)
    \/ Present(s)

NextTwo == \E s \in Sessions : Search(s)

SpecTwo == InitTwo /\ [][NextTwo]_vars

\* the display alone, on every short text over '-', 'a' and ' '
RenderAlphabet == {"-", "a", " "}
Blobs == UNION {[1..n -> RenderAlphabet] : n \in 0..MaxLen}

InitRender ==
    /\ remote = [t \in Titles |-> 0]
    /\ local = [t \in Titles |-> 0]
    /\ filesIndex = NoFile
    /\ cacheFile = NoFile
    /\ drive_files = [s \in Sessions |-> EmptyDict]
    /\ processed_cache = [s \in Sessions |-> EmptyDict]
    /\ pc = [s \in Sessions |-> IF s = 1 THEN "present" ELSE "idle"]
    /\ call = [s \in Sessions |-> NoCall]
    /\ \E blob \in Blobs : results = [s \in Sessions |-> IF s = 1 THEN blob ELSE None]
    /\ display = [s \in Sessions |-> Blank]
    /\ ran = [s \in Sessions |-> s = 1]
    /\ listed = [s \in Sessions |-> 0]
    /\ synced = "no"
    /\ log = [s \in Sessions |-> <<>>]
    /\ snap = [s \in Sessions |-> NoSnap]
    /\ outcome = [s \in Sessions |-> "none"]
    /\ origin = EmptyDict
    /\ firstVal = EmptyDict

NextRender == Present(1)

SpecRender == InitRender /\ [][NextRender]_vars

---------------------------------------------------------------------------
(* Properties *)

Stable == synced # "no"
Pair(s) == <<call[s].file, call[s].tag>>
InCall(s) == pc[s] \in {"processing", "present"}
Returned(s, how) == pc[s] = "present" /\ outcome[s] = how

\* C1: once process_pdf(f, t) has reached the cache write, every later call
\* process_pdf(f, t) returns the value of that first call as a cache hit: it opens no
\* document and makes no inference call.
C1_Idempotent ==
    \A s \in Sessions :
        (InCall(s) /\ Pair(s) \in DOMAIN firstVal) =>
            /\ pc[s] = "present"
            /\ results[s] = firstVal[Pair(s)]
            /\ outcome[s] \in {"hit", "done"}
            /\ outcome[s] = "hit" => log[s] = <<>>

C1_Witness ==
    \E s \in Sessions :
        /\ Returned(s, "hit")
        /\ Pair(s) \in DOMAIN firstVal
        /\ Truthy(results[s])
        /\ Cardinality(DOMAIN firstVal) >= 2

\* C2: in every session the folder listing of sync_drive_files has been executed
\* exactly once as soon as main has run, and after a run of main whose sync
\* returned, with the folder as it was then, every PDF of the Drive folder is in the
\* session's file index.
C2_SyncOncePerSession ==
    \A s \in Sessions :
        ran[s] =>
            /\ listed[s] = 1
            /\ (Stable /\ display[s].kind # "exception") =>
                   RemoteTitles(remote) \subseteq DOMAIN drive_files[s]

\* C3: no step changes or replaces a local PDF that exists; and once a sync call has
\* returned, as long as the Drive folder is not changed, no step (a further sync
\* least of all) changes the local PDFs, the persisted file index or the session's
\* file index.
C3_SyncStable ==
    [][/\ \A t \in Titles : local[t] # 0 => local'[t] = local[t]
       /\ (Stable /\ Stable') =>
              /\ local' = local
              /\ filesIndex' = filesIndex
              /\ \A s \in Sessions :
                     (ran[s] /\ ran'[s]) => drive_files'[s] = drive_files[s]]_vars

C3_Witness ==
    /\ synced = "kept"
    /\ \E t \in DOMAIN filesIndex.data : remote[t] = 2 /\ local[t] = 1
    /\ \A t \in Titles : local[t] # 0

\* C4: no step removes an entry of the persisted cache or changes its value, and
\* within a session no step removes an entry of the in-memory map or changes its
\* value.
C4_AddOnly ==
    [][/\ \A k \in DOMAIN load_cache(cacheFile) :
              /\ k \in DOMAIN load_cache(cacheFile')
              /\ load_cache(cacheFile')[k] = load_cache(cacheFile)[k]
       /\ \A s \in Sessions :
              (ran[s] /\ ran'[s]) =>
                  \A k \in DOMAIN processed_cache[s] :
                      /\ k \in DOMAIN processed_cache'[s]
                      /\ processed_cache'[s][k] = processed_cache[s][k]]_vars

C4_Witness ==
    /\ Cardinality(DOMAIN load_cache(cacheFile)) >= 2
    /\ \E s \in Sessions :
           /\ Returned(s, "error")
           /\ DOMAIN processed_cache[s] = DOMAIN load_cache(cacheFile)

\* the '---' of a text, counted from the left without overlap, by start position
RECURSIVE SepStarts(_, _)
SepStarts(s, i) ==
    IF i + Len(Sep) - 1 > Len(s) THEN {}
    ELSE IF IsSepAt(s, i) THEN {i} \cup SepStarts(s, i + Len(Sep))
    ELSE SepStarts(s, i + 1)

CountSep(s) == Cardinality(SepStarts(s, 1))

\* first and last position of the k-th piece between separators
PieceFrom(s, k) ==
    IF k = 1 THEN 1
    ELSE LET st == SepStarts(s, 1)
         IN (CHOOSE p \in st : Cardinality({q \in st : q <= p}) = k - 1) + Len(Sep)
PieceTo(s, k) ==
    LET st == SepStarts(s, 1)
    IN IF k = Cardinality(st) + 1 THEN Len(s)
       ELSE (CHOOSE p \in st : Cardinality({q \in st : q <= p}) = k) - 1
\* the k-th piece holds nothing but whitespace
BlankPiece(s, k) == \A j \in PieceFrom(s, k)..PieceTo(s, k) : s[j] \in Whitespace

Shown(s) == pc[s] = "idle" /\ display[s].kind = "results"

\* C5 as stated: a non-empty blob with N separators is shown as N or N + 1 sections.
C5_NOrNPlusOne ==
    \A s \in Sessions :
        Shown(s) =>
            Len(display[s].items) \in {CountSep(results[s]), CountSep(results[s]) + 1}

\* C5 amended: a non-empty blob with N separators is shown as one section for each
\* of its N + 1 pieces that is not blank, numbered by the position of the piece: at
\* most N + 1 sections, and none for a blob such as '---'.
C5_NonBlankPieces ==
    \A s \in Sessions :
        Shown(s) =>
            LET n == CountSep(results[s])
                items == display[s].items
            IN /\ Len(items) <= n + 1
               /\ {items[i].item : i \in 1..Len(items)}
                      = {k \in 1..(n + 1) : ~BlankPiece(results[s], k)}
               /\ \A i, j \in 1..Len(items) : i < j => items[i].item < items[j].item
               /\ \A i \in 1..Len(items) : items[i].text # <<>>

C5_Witness ==
    \E s \in Sessions :
        /\ Shown(s)
        /\ CountSep(results[s]) = 1
        /\ display[s].items = <<>>

\* the texts of a log of inference calls that Python takes as true, joined by
\* newlines, built from the last page backwards
RECURSIVE JoinedLog(_, _)
JoinedLog(lg, n) ==
    IF n = 0 THEN <<>>
    ELSE LET before == JoinedLog(lg, n - 1)
             r == lg[n].result
         IN IF r = None \/ Len(r) = 0 THEN before
            ELSE IF \A i \in 1..(n - 1) : lg[i].result = None \/ Len(lg[i].result) = 0
                 THEN r
                 ELSE before \o <<NL>> \o r

\* C6: when process_pdf returns from its cache write, inference has been called once
\* for each page of the document, in page order; the value returned is the non-empty
\* page results in page order joined by newlines, and it is the value under the key
\* in the in-memory cache and in the persisted cache.
C6_MissRun ==
    \A s \in Sessions :
        Returned(s, "done") =>
            /\ Len(log[s]) = PagesOf(call[s].file)
            /\ \A i \in 1..Len(log[s]) : log[s][i].page = i
            /\ results[s] = JoinedLog(log[s], Len(log[s]))
            /\ call[s].key \in DOMAIN processed_cache[s]
            /\ processed_cache[s][call[s].key] = results[s]
            /\ cacheFile.exists
            /\ call[s].key \in DOMAIN cacheFile.data
            /\ cacheFile.data[call[s].key] = results[s]

C6_Witness ==
    \E s \in Sessions :
        /\ Returned(s, "done")
        /\ Len(log[s]) >= 2
        /\ \E i \in 1..Len(log[s]) : ~Truthy(log[s][i].result)
        /\ \E i \in 1..Len(log[s]) : Truthy(log[s][i].result)

\* C7: when process_pdf returns from its except branch, it returns None, the
\* in-memory cache and the cache file are what they were when it was called, and the
\* key is in neither: the next call with the file and tag is a miss again.
C7_NothingCachedOnError ==
    \A s \in Sessions :
        Returned(s, "error") =>
            /\ results[s] = None
            /\ processed_cache[s] = snap[s].mem
            /\ cacheFile = snap[s].file
            /\ ~IsCached(processed_cache[s], call[s].key)
            /\ ~IsCached(load_cache(cacheFile), call[s].key)

C7_Witness ==
    \E s \in Sessions :
        /\ Returned(s, "error")
        /\ call[s].all_results # <<>>
        /\ DOMAIN processed_cache[s] # {}

\* C8: a run whose pages all give an empty or None result stores the empty string
\* under the key; a call that finds the empty string under its key returns it as a
\* cache hit without inference; and the page shows "No relevant news found" for the
\* empty string as it does for None.
C8_EmptyCached ==
    \A s \in Sessions :
        /\ (Returned(s, "done") /\ \A i \in 1..Len(log[s]) : ~Truthy(log[s][i].result)) =>
               /\ results[s] = <<>>
               /\ cacheFile.data[call[s].key] = <<>>
        /\ (InCall(s) /\ call[s].key \in DOMAIN snap[s].mem
                      /\ snap[s].mem[call[s].key] = <<>>) =>
               /\ Returned(s, "hit")
               /\ results[s] = <<>>
               /\ log[s] = <<>>
        /\ (pc[s] = "idle" /\ outcome[s] \in {"hit", "done", "error"}
                           /\ ~Truthy(results[s])) =>
               display[s].kind = "no_news"

C8_Witness ==
    \E s \in Sessions :
        /\ pc[s] = "idle"
        /\ outcome[s] = "hit"
        /\ results[s] = <<>>
        /\ display[s].kind = "no_news"

\* C9: a cache write leaves the cache file equal to the writing session's in-memory
\* map: an entry that another session saved after the writer loaded the file, under
\* another key, is no longer in the file.
C9_LastWriterWins ==
    [][\A s \in Sessions :
           (pc[s] = "processing" /\ pc'[s] = "present" /\ outcome'[s] = "done") =>
               /\ load_cache(cacheFile') = processed_cache'[s]
               /\ \A k \in DOMAIN load_cache(cacheFile) :
                      (k \notin DOMAIN snap[s].mem /\ k # call[s].key) =>
                          k \notin DOMAIN load_cache(cacheFile')]_vars

C9_Witness ==
    /\ \A s \in Sessions : outcome[s] = "done"
    /\ \E k \in DOMAIN origin : k \notin DOMAIN load_cache(cacheFile)

\* C10: a cache hit returns a value that a run for the same file and the same tag
\* stored.
C10_KeyPerPair ==
    \A s \in Sessions :
        Returned(s, "hit") => origin[call[s].key] = Pair(s)

====
